---- MODULE Spec2Model ----
(***************************************************************************)
(* A model of floatcsep.infrastructure.engine: Task and TaskGraph.         *)
(*                                                                         *)
(* The graph is assembled with add / add_dependency and then executed      *)
(* either by the serial run() or by run_parallel(max_workers), whose       *)
(* controller thread and pool workers are interleaved step by step.        *)
(* Durations (the "ms" field of a profile bucket) are wall-clock reals and *)
(* are not modelled; only the invocation count of each bucket is.          *)
(*                                                                         *)
(* Further specifications look at one part each: SpecMatch at              *)
(* Task.sign_match, SpecBuild at the assembly of a graph, SpecRun at       *)
(* Task.run with nested tasks, SpecRegistry at                             *)
(* floatcsep.infrastructure.registries: ExperimentFileRegistry and         *)
(* FilepathMixin.get_attr.  Paths are strings; a registry is its __dict__. *)
(* SpecPar runs run_parallel on declared graphs with duplicate             *)
(* dependencies and cycles, SpecAccum takes TaskGraph._accum one           *)
(* statement at a time, SpecBucket calls TaskGraph._bucket on any task,    *)
(* SpecDepend calls add_dependency for registered and unregistered tasks.  *)
(***************************************************************************)
EXTENDS Integers, Sequences, FiniteSets, TLC

(* ----------------------------- bounds --------------------------------- *)

\* Number of Task objects the caller has created.
NTasks == 3
\* Cap on the total number of entries over all dependency lists.
MaxDeps == 2
\* Cap on the number of add() calls: every task once and one task again.
MaxAdds == NTasks + 1
\* run_parallel is called with max_workers 1 or MaxWorkers.
MaxWorkers == 2

Tasks == 1..NTasks

(* ------------------- the caller's objects and tasks -------------------- *)

\* Python's None, and the state of an attribute removed with "del".
None == "None"
Deleted == "<deleted>"

\* Task.__init__: the target (instance) each Task object was built with.
TaskTarget(t) ==
    CASE t = 1 -> "catalog_repo"
      [] t = 2 -> "model_a"
      [] t = 3 -> "test_n"
      [] OTHER -> "model_b"

\* Task.__init__: the method name each Task object was built with.
TaskMethod(t) ==
    CASE t = 1 -> "set_input_cat"
      [] t = 2 -> "create_forecast"
      [] t = 3 -> "compute"
      [] OTHER -> "get_forecast"

\* Task.__init__: the values of the keyword arguments (kwargs.values()).
TaskKwargs(t) == {"tw1"}

\* getattr(obj, "name", None) of a target.
ObjName(o) ==
    CASE o = "model_a" -> "modelA"
      [] o = "model_b" -> "modelB"
      [] o = "test_n" -> "N-test"
      [] OTHER -> None

\* getattr(obj, "type", None) of a target; one target has the attribute
\* with an empty string in it.
ObjType(o) ==
    CASE o = "test_n" -> "consistency"
      [] o = "test_blank" -> ""
      [] OTHER -> None

\* A Task object used as the target of another Task (a nested task), and
\* the Task such a target is.
TaskObjects == {"task_1", "task_2"}
RefTask(o) == IF o = "task_1" THEN 1 ELSE 2

\* hasattr(obj, "store"): of the targets, only Task objects have the
\* attribute (Task.__init__ sets it).
ObjHasStore(o) == o \in TaskObjects

\* The values the caller passes to add_dependency.
InstArgs == {TaskTarget(t) : t \in Tasks} \cup {ObjName(TaskTarget(t)) : t \in Tasks} \cup {None}
MethArgs == {TaskMethod(t) : t \in Tasks} \cup {None}
KwArgs == {"tw1", None}

\* What an operation can do: return nothing, return a non-empty value, raise
\* an Exception.
Returns == {None, "out"}
Raise == "raise"
Outcomes == Returns \cup {Raise}
\* A return value that is not None and still false in "if output:".
Empty == ""

VARIABLES
    tasks,       \* TaskGraph.tasks: the keys, in insertion order
    deps,        \* TaskGraph.tasks: key -> dependency list
    ntasks,      \* TaskGraph._ntasks
    obj,         \* Task.obj of every Task object
    store,       \* Task.store of every Task object
    prof,        \* TaskGraph._prof: bucket -> count
    proflock,    \* TaskGraph._prof_lock: 0 when free, else the holding task's worker
    pc,          \* where the caller / controller is
    maxw,        \* run_parallel's max_workers
    idx,         \* run(): position of the for loop in tasks
    indegree,    \* run_parallel local
    dependents,  \* run_parallel local
    ready,       \* run_parallel local deque
    running,     \* run_parallel local: tasks whose future is in the dict
    pending,     \* the futures as_completed still has to yield
    completed,   \* run_parallel local counter
    st,          \* per task: where its future / worker is
    res,         \* per task: how its operation ended
    nrun,        \* per task: how many times its operation was invoked
    recv,        \* per task: the object its operation was last looked up on
    s_count,     \* per task: the s["count"] its _accum read before adding one
    registry,    \* the __dict__ of an ExperimentFileRegistry
    dummy,       \* the __dict__ of a registry that only has FilepathMixin
    fs,          \* the directories os.makedirs has created
    call,        \* the last call made to a Task or a registry, with its arguments
    ret          \* how that call ended: what it returned or raised

vars == <<tasks, deps, ntasks, obj, store, prof, proflock, pc, maxw, idx,
          indegree, dependents, ready, running, pending, completed, st, res, nrun,
          recv, s_count, registry, dummy, fs, call, ret>>

graphVars == <<tasks, deps, ntasks>>
taskVars == <<obj, store>>
parVars == <<maxw, indegree, dependents, ready, running, pending, completed>>
workVars == <<st, res, nrun>>
regVars == <<registry, dummy, fs>>
callVars == <<call, ret>>
engineVars == <<graphVars, taskVars, prof, proflock, pc, idx, parVars, workVars, recv, s_count>>

Keys == {tasks[i] : i \in 1..Len(tasks)}

TotalDeps == LET RECURSIVE Sum(_)
                 Sum(i) == IF i = 0 THEN 0 ELSE Len(deps[tasks[i]]) + Sum(i - 1)
             IN Sum(Len(tasks))

(* ------------------------------- Task ---------------------------------- *)

\* A Task object as a value: its target, its method name and the values of
\* its keyword arguments.
TaskOf(o, m, kws) == [obj |-> o, method |-> m, kwargs |-> kws]

\* Variant of Task_sign_match that skips the test of the target.
Task_sign_match_any_target(task, inst, meth, kw_arg) ==
    meth = task.method /\ kw_arg \in task.kwargs

\* Task.sign_match: the three nested ifs.
Task_sign_match(task, inst, meth, kw_arg) ==
    IF task.obj = inst \/ inst = ObjName(task.obj)
    THEN IF meth = task.method
         THEN IF kw_arg \in task.kwargs THEN TRUE ELSE FALSE
         ELSE FALSE
    ELSE FALSE

\* Task.sign_match of the Task object t, on its current target o.
sign_match(t, o, inst, meth, kw_arg) ==
    Task_sign_match(TaskOf(o, TaskMethod(t), TaskKwargs(t)), inst, meth, kw_arg)

\* Task.__str__ reads self.obj: it raises AttributeError once run() has
\* deleted the attribute.
StrRaises(t) == obj[t] = Deleted

(* ------------------------ calls and their ends ------------------------ *)

\* No call made yet.
NoCall == [op |-> "none", args |-> <<>>]
NoRet == [kind |-> "none", val |-> None]
\* A call that returned v, a call that left with the exception e.
Return(v) == [kind |-> "return", val |-> v]
Raised(e) == [kind |-> "raise", val |-> e]

(* ---------------------- values held by a registry ---------------------- *)

\* A dict, a str or Path (absolute or relative), any other object.
Dict(f) == [d |-> f]
Leaf(s, a) == [p |-> s, abs |-> a]
Object(o) == [o |-> o]
IsDict(v) == "d" \in DOMAIN v
IsLeaf(v) == "p" \in DOMAIN v
EmptyDict == Dict(<<>>)

\* os.path.join / Path(a, b) of a relative b.
Join(a, b) == a \o "/" \o b

\* ExperimentFileRegistry.__init__(workdir="/test/workdir"): the instance's
\* __dict__.  run_dir is self.abs(Path("results")).
WorkDir == "/test/workdir"
NewExperimentFileRegistry ==
    Dict([workdir |-> Leaf(WorkDir, TRUE),
          run_dir |-> Leaf(Join(WorkDir, "results"), TRUE),
          results |-> EmptyDict,
          test_catalogs |-> EmptyDict,
          figures |-> EmptyDict,
          repr_config |-> Leaf("repr_config.yml", FALSE),
          model_registries |-> EmptyDict])

\* The registry of TestFilepathMixin.setUp: a dataclass that has nothing
\* but FilepathMixin's methods.
DummyRegistry ==
    Dict([workdir |-> Leaf("/tmp/fpmix", TRUE),
          forecasts |-> Dict([w \in {"2020-01-01_2020-01-02", "not_exists"} |->
                                IF w = "not_exists"
                                THEN Leaf("forecasts/does_not_exist.csv", FALSE)
                                ELSE Leaf("forecasts/f1.csv", FALSE)]),
          catalogs |-> Dict([c \in {"cat1"} |-> Leaf("catalogs/cat1/eventlist.txt", FALSE)])])

(* ---------------------------- TaskGraph -------------------------------- *)

\* The state of everything but the graph and its tasks before any call.
\* The registries as constructed, and no call made yet.
InitCalls ==
    /\ registry = NewExperimentFileRegistry
    /\ dummy = DummyRegistry
    /\ fs = {}
    /\ call = NoCall
    /\ ret = NoRet

InitRest ==
    /\ recv = [t \in Tasks |-> None]
    /\ s_count = [t \in Tasks |-> 0]
    /\ InitCalls

Init ==
    /\ InitRest
    /\ tasks = <<>>
    /\ deps = <<>>
    /\ ntasks = 0
    /\ obj = [t \in Tasks |-> TaskTarget(t)]
    /\ store = [t \in Tasks |-> None]
    /\ prof = <<>>
    /\ proflock = 0
    /\ pc = "build"
    /\ maxw = 0
    /\ idx = 0
    /\ indegree = <<>>
    /\ dependents = <<>>
    /\ ready = <<>>
    /\ running = {}
    /\ pending = {}
    /\ completed = 0
    /\ st = [t \in Tasks |-> "new"]
    /\ res = [t \in Tasks |-> "pending"]
    /\ nrun = [t \in Tasks |-> 0]

\* The graph as a value: the OrderedDict's keys in order, its lists, _ntasks.
Graph == [tasks |-> tasks, deps |-> deps, ntasks |-> ntasks]
EmptyGraph == [tasks |-> <<>>, deps |-> <<>>, ntasks |-> 0]

KeysOf(g) == {g.tasks[i] : i \in 1..Len(g.tasks)}

\* TaskGraph.add: self.tasks[task] = []; self.ntasks += 1.  Assigning to a key
\* the OrderedDict already holds keeps its position and replaces its list.
AddTo(g, t) ==
    [tasks |-> IF t \in KeysOf(g) THEN g.tasks ELSE Append(g.tasks, t),
     deps |-> IF t \in KeysOf(g) THEN [g.deps EXCEPT ![t] = <<>>] ELSE g.deps @@ (t :> <<>>),
     ntasks |-> g.ntasks + 1]

\* Variant of Matches that scans every Task object, added to the graph or
\* not.
MatchesAnyTask(g, inst, meth, kw) ==
    SelectSeq([i \in 1..(NTasks + 2) |-> i],
              LAMBDA o : o \in DOMAIN obj /\ sign_match(o, obj[o], inst, meth, kw))

\* Variant of Matches that scans the registered tasks from the last one
\* added.
MatchesReversed(g, inst, meth, kw) ==
    SelectSeq([i \in 1..Len(g.tasks) |-> g.tasks[Len(g.tasks) + 1 - i]],
              LAMBDA o : sign_match(o, obj[o], inst, meth, kw))

\* The scan of add_dependency: the registered tasks whose signature matches,
\* in insertion order.
Matches(g, inst, meth, kw) ==
    SelectSeq(g.tasks, LAMBDA o : sign_match(o, obj[o], inst, meth, kw))

\* Variant of AddDependencyTo for a mapping that makes the missing key, as a
\* defaultdict(list) would.
AddDependencyToDefault(g, t, inst, meth, kw) ==
    IF t \in KeysOf(g)
    THEN [g EXCEPT !.deps[t] = @ \o Matches(g, inst, meth, kw)]
    ELSE [tasks |-> Append(g.tasks, t),
          deps |-> g.deps @@ (t :> Matches(g, inst, meth, kw)),
          ntasks |-> g.ntasks]

\* TaskGraph.add_dependency: self.tasks[task].extend(deps) raises KeyError,
\* after the scan and before any change, when task is not a key.
AddDependencyTo(g, t, inst, meth, kw) ==
    IF t \in KeysOf(g)
    THEN [g EXCEPT !.deps[t] = @ \o Matches(g, inst, meth, kw)]
    ELSE g

add(t) ==
    /\ pc = "build"
    /\ ntasks < MaxAdds
    /\ LET g == AddTo(Graph, t) IN
       /\ tasks' = g.tasks
       /\ deps' = g.deps
       /\ ntasks' = g.ntasks
    /\ UNCHANGED <<recv, regVars, callVars, s_count, taskVars, prof, proflock, pc, idx, parVars, workVars>>

add_dependency(t, inst, meth, kw) ==
    /\ pc = "build"
    /\ TotalDeps + (IF t \in Keys THEN Len(Matches(Graph, inst, meth, kw)) ELSE 0) <= MaxDeps
    /\ LET g == AddDependencyTo(Graph, t, inst, meth, kw) IN
       /\ tasks' = g.tasks
       /\ deps' = g.deps
       /\ ntasks' = g.ntasks
    /\ UNCHANGED <<recv, regVars, callVars, s_count, taskVars, prof, proflock, pc, idx, parVars, workVars>>

\* Variant of BucketLabel that ignores the type of the target.
BucketLabelNoType(m, ty) ==
    CASE m = "set_test_cat" -> <<"prep", "set_test_cat">>
      [] m = "set_input_cat" -> <<"prep", "set_input_cat">>
      [] m = "create_forecast" -> <<"model", "create_forecast">>
      [] m = "get_forecast" -> <<"eval", "get_forecast">>
      [] m = "compute" -> <<"eval", "compute">>
      [] OTHER -> <<"other", m>>

\* TaskGraph.add_dependency, called by a caller that keeps how the call
\* ended: it returns None, or self.tasks[task] raises KeyError.
add_dependency_call(t, inst, meth, kw) ==
    /\ pc = "build"
    /\ TotalDeps + (IF t \in Keys THEN Len(Matches(Graph, inst, meth, kw)) ELSE 0) <= MaxDeps
    /\ LET g == AddDependencyTo(Graph, t, inst, meth, kw) IN
       /\ tasks' = g.tasks
       /\ deps' = g.deps
       /\ ntasks' = g.ntasks
    /\ call' = [op |-> "add_dependency", args |-> <<t, inst, meth, kw>>]
    /\ ret' = IF t \in Keys THEN Return(None) ELSE Raised("KeyError")
    /\ UNCHANGED <<recv, regVars, s_count, taskVars, prof, proflock, pc, idx, parVars, workVars>>

\* TaskGraph._bucket, the chain of ifs over the method name m and the value
\* ty of getattr(obj, "type", None).  A label "a:b:c" is the tuple of its
\* parts; "if t" is false for None and for the empty string.
BucketLabel(m, ty) ==
    CASE m = "set_test_cat" -> <<"prep", "set_test_cat">>
      [] m = "set_input_cat" -> <<"prep", "set_input_cat">>
      [] m = "create_forecast" -> <<"model", "create_forecast">>
      [] m = "get_forecast" -> <<"eval", "get_forecast">>
      [] m = "compute" -> IF ty \notin {None, Empty}
                          THEN <<"eval", "compute", ty>>
                          ELSE <<"eval", "compute">>
      [] OTHER -> <<"other", m>>

\* TaskGraph._bucket(task): "obj = task.obj" comes first and raises
\* AttributeError when run() has deleted the attribute.
_bucket(task) ==
    IF task.obj = Deleted
    THEN Raised("AttributeError")
    ELSE Return(BucketLabel(task.method, ObjType(task.obj)))

\* TaskGraph._bucket, for the Task object t whose target is o.  Both runners
\* call it before the task has run, when the target is still that of
\* __init__.
Bucket(t, o) == BucketLabel(TaskMethod(t), ObjType(o))

\* The body of TaskGraph._accum under the lock: s = self._prof[bucket] (a
\* defaultdict: a missing bucket starts at count 0); s["count"] += 1.
Accum(p, b) ==
    IF b \in DOMAIN p THEN [p EXCEPT ![b] = @ + 1] ELSE p @@ (b :> 1)

\* Variant of RunTarget without the redirection to the store.
RunTargetUnwrapped(t) == obj[t]

\* Task.run up to and including the call of the operation: the target is
\* redirected to its store when it has one.
RunTarget(t) == IF ObjHasStore(obj[t]) THEN store[RefTask(obj[t])] ELSE obj[t]

\* getattr(self.obj, self.method) on None raises AttributeError: the
\* operation is not called and Task.run can only end with that error.
CanEndWith(o, r) == o = None => r = Raise

\* Variant of StoreAfter that stores every output but None.
StoreAfterNotNone(t, r) == IF r # None THEN r ELSE store[t]

\* Task.run after the operation returned r: a truthy output is stored and
\* the target attribute deleted.
ObjAfter(t, r) == IF r = "out" THEN Deleted ELSE RunTarget(t)
StoreAfter(t, r) == IF r = "out" THEN r ELSE store[t]

(* ------------------------------ run() ---------------------------------- *)

\* TaskGraph.run, the log line and t0.
run ==
    /\ pc = "build"
    /\ pc' = "serial"
    /\ idx' = 1
    /\ UNCHANGED <<recv, regVars, callVars, s_count, graphVars, taskVars, prof, proflock, parVars, workVars>>

\* Variant of LoopTask that walks the tasks from the last one added.
LoopTaskReversed(i) == tasks[Len(tasks) + 1 - i]

\* "for task, deps in self.tasks.items()": the task of the i-th iteration.
\* The dependency list is bound and never read.
LoopTask(i) == tasks[i]

\* Variant of run_step with the call wrapped as in run_parallel: the error
\* is swallowed and the loop goes on.
run_step_swallow(r) ==
    /\ pc = "serial"
    /\ idx <= Len(tasks)
    /\ LET t == LoopTask(idx) IN
       /\ CanEndWith(RunTarget(t), r)
       /\ nrun' = [nrun EXCEPT ![t] = @ + 1]
       /\ recv' = [recv EXCEPT ![t] = RunTarget(t)]
       /\ res' = [res EXCEPT ![t] = r]
       /\ obj' = [obj EXCEPT ![t] = IF r = Raise THEN RunTarget(t) ELSE ObjAfter(t, r)]
       /\ store' = [store EXCEPT ![t] = IF r = Raise THEN @ ELSE StoreAfter(t, r)]
       /\ prof' = Accum(prof, Bucket(t, obj[t]))
    /\ idx' = idx + 1
    /\ UNCHANGED <<regVars, callVars, s_count, graphVars, proflock, pc, parVars, st>>

\* One iteration of run()'s for loop, the operation ending with r: _bucket,
\* the log line, task.run(), _accum.  A raise leaves the loop and run()
\* before _accum.
run_step(r) ==
    /\ pc = "serial"
    /\ idx <= Len(tasks)
    /\ LET t == LoopTask(idx) IN
       /\ CanEndWith(RunTarget(t), r)
       /\ nrun' = [nrun EXCEPT ![t] = @ + 1]
       /\ recv' = [recv EXCEPT ![t] = RunTarget(t)]
       /\ res' = [res EXCEPT ![t] = r]
       /\ IF r = Raise
          THEN /\ pc' = "raised"
               /\ obj' = [obj EXCEPT ![t] = RunTarget(t)]
               /\ UNCHANGED <<store, prof, idx>>
          ELSE /\ obj' = [obj EXCEPT ![t] = ObjAfter(t, r)]
               /\ store' = [store EXCEPT ![t] = StoreAfter(t, r)]
               /\ prof' = Accum(prof, Bucket(t, obj[t]))
               /\ idx' = idx + 1
               /\ pc' = pc
    /\ UNCHANGED <<regVars, callVars, s_count, graphVars, proflock, parVars, st>>

\* The end of run(): the loop is exhausted, _print_prof, return.
run_end ==
    /\ pc = "serial"
    /\ idx > Len(tasks)
    /\ pc' = "done"
    /\ UNCHANGED <<recv, regVars, callVars, s_count, graphVars, taskVars, prof, proflock, idx, parVars, workVars>>

(* --------------------------- run_parallel ------------------------------ *)

Occurrences(s, d) == Cardinality({j \in 1..Len(s) : s[j] = d})

Repeat(t, n) == [j \in 1..n |-> t]

\* Variant of BuildIndegree that leaves every indegree at its initial 0.
BuildIndegreeZero == [t \in Keys |-> 0]

\* Variant of BuildIndegree that counts each dependency once, however often
\* the list holds it.
BuildIndegreeDistinct == [t \in Keys |-> Cardinality({deps[t][j] : j \in 1..Len(deps[t])})]

\* TaskGraph._build_dependency_maps: indegree[t] = len(deps).
BuildIndegree == [t \in Keys |-> Len(deps[t])]

\* TaskGraph._build_dependency_maps: dependents[d], filled in the order of
\* self.tasks.items(), one entry per occurrence of d in a list.  A
\* defaultdict: a task nobody depends on has the empty list.
BuildDependents ==
    LET RECURSIVE UpTo(_, _)
        UpTo(d, i) == IF i = 0 THEN <<>>
                      ELSE UpTo(d, i - 1) \o Repeat(tasks[i], Occurrences(deps[tasks[i]], d))
    IN [d \in DOMAIN obj |-> UpTo(d, Len(tasks))]

\* Variant of SeedReady that seeds every task, whatever its indegree.
SeedReadyAll(indeg) == tasks

\* run_parallel line 270: the tasks of indegree 0, in insertion order.
SeedReady(indeg) == SelectSeq(tasks, LAMBDA t : indeg[t] = 0)

\* Variant of Released that is off by one.
ReleasedAtOne(n) == n <= 1

\* The test of the "release dependents" loop: the dependent becomes ready.
Released(n) == n = 0

\* "for dep in dependents[task]: indegree[dep] -= 1; if indegree[dep] == 0:
\* ready.append(dep)", over the list ds.
RECURSIVE Release(_, _, _)
Release(ds, indeg, rdy) ==
    IF ds = <<>> THEN [indegree |-> indeg, ready |-> rdy]
    ELSE LET d == Head(ds)
             n == indeg[d] - 1
         IN Release(Tail(ds), [indeg EXCEPT ![d] = n],
                    IF Released(n) THEN Append(rdy, d) ELSE rdy)

\* Variant of SlotFree that is off by one.
SlotFreeOffByOne(inflight, k) == Cardinality(inflight) <= k

\* The guard of the seed and backfill loops: a worker slot is free.
SlotFree(inflight, k) == Cardinality(inflight) < k

\* Variant of Backfill that takes the task at the back of the queue.
RECURSIVE BackfillFromBack(_, _, _)
BackfillFromBack(rdy, inflight, k) ==
    IF rdy # <<>> /\ SlotFree(inflight, k)
    THEN BackfillFromBack(SubSeq(rdy, 1, Len(rdy) - 1), inflight \cup {rdy[Len(rdy)]}, k)
    ELSE [ready |-> rdy, running |-> inflight]

\* "while ready and len(running) < max_workers: submit_task(ex,
\* ready.popleft())": the queue and the in-flight set after the loop.
RECURSIVE Backfill(_, _, _)
Backfill(rdy, inflight, k) ==
    IF rdy # <<>> /\ SlotFree(inflight, k)
    THEN Backfill(Tail(rdy), inflight \cup {Head(rdy)}, k)
    ELSE [ready |-> rdy, running |-> inflight]

\* submit_task: the futures created by a seed or backfill loop are pending.
Submitted(stt, new) == [t \in DOMAIN stt |-> IF t \in new THEN "submitted" ELSE stt[t]]

\* run_parallel up to the "while running" loop: the maps, the ready queue,
\* the pool and the seed loop.
run_parallel(k) ==
    /\ pc = "build"
    /\ LET indeg == BuildIndegree
           bf == Backfill(SeedReady(indeg), {}, k)
       IN /\ indegree' = indeg
          /\ dependents' = BuildDependents
          /\ ready' = bf.ready
          /\ running' = bf.running
          /\ st' = Submitted(st, bf.running)
    /\ maxw' = k
    /\ completed' = 0
    /\ pending' = {}
    /\ pc' = "par_loop"
    /\ UNCHANGED <<recv, regVars, callVars, s_count, graphVars, taskVars, prof, proflock, idx, res, nrun>>

\* "while running:", reached from the seed loop or when as_completed has
\* yielded every future of its snapshot: list(running.keys()) is the next
\* snapshot; when nothing is in flight the pool is shut down, the summary is
\* logged and run_parallel returns.
par_while ==
    /\ pc = "par_loop"
    /\ pending = {}
    /\ IF running = {}
       THEN pc' = "done" /\ UNCHANGED pending
       ELSE pc' = pc /\ pending' = running
    /\ UNCHANGED <<recv, regVars, callVars, s_count, graphVars, taskVars, prof, proflock, idx, maxw, indegree,
                   dependents, ready, running, completed, workVars>>

\* One iteration of "for fut in as_completed(...)": a finished future of the
\* snapshot is popped and handled.  Both log lines format the task with
\* Task.__str__: when that raises, the AttributeError of the DONE line is
\* caught by "except Exception" and raised again by the FAIL line, and
\* leaves run_parallel through the pool's __exit__.
par_collect(t) ==
    /\ pc = "par_loop"
    /\ t \in pending
    /\ st[t] = "finished"
    /\ IF StrRaises(t)
       THEN /\ pc' = "par_exc"
            /\ running' = running \ {t}
            /\ UNCHANGED <<indegree, ready, completed, pending, st>>
       ELSE LET rel == Release(dependents[t], indegree, ready)
                bf == Backfill(rel.ready, running \ {t}, maxw)
            IN /\ completed' = completed + 1
               /\ indegree' = rel.indegree
               /\ ready' = bf.ready
               /\ running' = bf.running
               /\ st' = [Submitted(st, bf.running \ running) EXCEPT ![t] = "collected"]
               /\ pending' = pending \ {t}
               /\ pc' = pc
    /\ UNCHANGED <<recv, regVars, callVars, s_count, graphVars, taskVars, prof, proflock, idx, maxw, dependents, res, nrun>>

\* ThreadPoolExecutor.__exit__ with the exception in flight:
\* shutdown(wait=True) joins the workers, then run_parallel raises.
par_shutdown ==
    /\ pc = "par_exc"
    /\ \A t \in running : st[t] = "finished"
    /\ pc' = "raised"
    /\ UNCHANGED <<recv, regVars, callVars, s_count, graphVars, taskVars, prof, proflock, idx, parVars, workVars>>

(* ------------------------- the pool's workers -------------------------- *)

PoolAlive == pc \in {"par_loop", "par_exc"}

\* Variant of worker_start that holds the profile lock from the start of
\* _timed on.
worker_start_locked(t) ==
    /\ PoolAlive
    /\ st[t] = "submitted"
    /\ proflock = 0
    /\ proflock' = t
    /\ st' = [st EXCEPT ![t] = "running"]
    /\ nrun' = [nrun EXCEPT ![t] = @ + 1]
    /\ recv' = [recv EXCEPT ![t] = RunTarget(t)]
    /\ obj' = [obj EXCEPT ![t] = RunTarget(t)]
    /\ UNCHANGED <<regVars, callVars, s_count, graphVars, store, prof, pc, idx, parVars, res>>

\* A worker takes the work item: _timed starts and Task.run calls the
\* operation.
worker_start(t) ==
    /\ PoolAlive
    /\ st[t] = "submitted"
    /\ st' = [st EXCEPT ![t] = "running"]
    /\ nrun' = [nrun EXCEPT ![t] = @ + 1]
    /\ recv' = [recv EXCEPT ![t] = RunTarget(t)]
    /\ obj' = [obj EXCEPT ![t] = RunTarget(t)]
    /\ UNCHANGED <<regVars, callVars, s_count, graphVars, store, prof, proflock, pc, idx, parVars, res>>

\* Variant of worker_op_end with "except" in the place of "finally": an
\* operation that raised is not accumulated.
worker_op_end_no_finally(t, r) ==
    /\ PoolAlive
    /\ st[t] = "running"
    /\ CanEndWith(obj[t], r)
    /\ st' = [st EXCEPT ![t] = IF r = Raise THEN "finished" ELSE "finally"]
    /\ res' = [res EXCEPT ![t] = r]
    /\ IF r = Raise
       THEN UNCHANGED <<obj, store>>
       ELSE /\ obj' = [obj EXCEPT ![t] = ObjAfter(t, r)]
            /\ store' = [store EXCEPT ![t] = StoreAfter(t, r)]
    /\ UNCHANGED <<recv, regVars, callVars, s_count, graphVars, prof, proflock, pc, idx, parVars, nrun>>

\* The operation ends with r; Task.run stores a truthy output and deletes
\* the target; _timed enters its finally clause.
worker_op_end(t, r) ==
    /\ PoolAlive
    /\ st[t] = "running"
    /\ CanEndWith(obj[t], r)
    /\ st' = [st EXCEPT ![t] = "finally"]
    /\ res' = [res EXCEPT ![t] = r]
    /\ IF r = Raise
       THEN UNCHANGED <<obj, store>>
       ELSE /\ obj' = [obj EXCEPT ![t] = ObjAfter(t, r)]
            /\ store' = [store EXCEPT ![t] = StoreAfter(t, r)]
    /\ UNCHANGED <<recv, regVars, callVars, s_count, graphVars, prof, proflock, pc, idx, parVars, nrun>>

\* Variant of worker_accum_enter whose "with" does not wait for the lock to
\* be free.
worker_accum_enter_no_wait(t) ==
    /\ PoolAlive
    /\ st[t] = "finally"
    /\ proflock' = t
    /\ st' = [st EXCEPT ![t] = "locked"]
    /\ UNCHANGED <<recv, regVars, callVars, s_count, graphVars, taskVars, prof, pc, idx, parVars, res, nrun>>

\* _accum: "with self._prof_lock" acquires the lock.
worker_accum_enter(t) ==
    /\ PoolAlive
    /\ st[t] = "finally"
    /\ proflock = 0
    /\ proflock' = t
    /\ st' = [st EXCEPT ![t] = "locked"]
    /\ UNCHANGED <<recv, regVars, callVars, s_count, graphVars, taskVars, prof, pc, idx, parVars, res, nrun>>

\* Variant of worker_accum_exit in which the worker itself lowers the
\* indegree of the tasks that depend on its task.
worker_accum_exit_release(t) ==
    /\ PoolAlive
    /\ st[t] = "locked"
    /\ proflock = t
    /\ prof' = Accum(prof, Bucket(t, TaskTarget(t)))
    /\ proflock' = 0
    /\ st' = [st EXCEPT ![t] = "finished"]
    /\ indegree' = [d \in DOMAIN indegree |-> indegree[d] - Occurrences(dependents[t], d)]
    /\ UNCHANGED <<recv, regVars, callVars, s_count, graphVars, taskVars, pc, idx, maxw, dependents,
                   ready, running, pending, completed, res, nrun>>

\* _accum: the bucket is updated, the lock released; _timed returns or
\* re-raises and the future is set.  The bucket was computed by submit_task.
worker_accum_exit(t) ==
    /\ PoolAlive
    /\ st[t] = "locked"
    /\ proflock = t
    /\ prof' = Accum(prof, Bucket(t, TaskTarget(t)))
    /\ proflock' = 0
    /\ st' = [st EXCEPT ![t] = "finished"]
    /\ UNCHANGED <<recv, regVars, callVars, s_count, graphVars, taskVars, pc, idx, parVars, res, nrun>>

(* --------------------------- specification ----------------------------- *)

\* The caller adds each Task object once, in the order it created them,
\* declares dependencies, and then calls run() or run_parallel(k), with k = 1
\* or k = MaxWorkers.
Next ==
    \/ \E t \in Tasks : t = Len(tasks) + 1 /\ add(t)
    \/ \E t \in Tasks, inst \in InstArgs, meth \in MethArgs, kw \in KwArgs :
           add_dependency(t, inst, meth, kw)
    \/ run
    \/ \E r \in Outcomes : run_step(r)
    \/ run_end
    \/ \E k \in {1, MaxWorkers} : run_parallel(k)
    \/ par_while
    \/ \E t \in Tasks : par_collect(t)
    \/ par_shutdown
    \/ \E t \in Tasks : worker_start(t)
    \/ \E t \in Tasks, r \in Outcomes : worker_op_end(t, r)
    \/ \E t \in Tasks : worker_accum_enter(t)
    \/ \E t \in Tasks : worker_accum_exit(t)

Spec == Init /\ [][Next]_vars

(* ------------------- the three-task scenario (spec 8) ------------------ *)

\* t1 set_input_cat, t2 create_forecast, t3 compute are added; t2's
\* dependency on t1 is declared by target and operation only (dkw is left at
\* its default None), t3's on t2 by the full signature.
ScenarioGraph ==
    LET g1 == AddTo(AddTo(AddTo(EmptyGraph, 1), 2), 3)
        g2 == AddDependencyTo(g1, 2, TaskTarget(1), TaskMethod(1), None)
    IN AddDependencyTo(g2, 3, ObjName(TaskTarget(2)), TaskMethod(2), "tw1")

InitScenario ==
    /\ InitRest
    /\ obj = [t \in Tasks |-> TaskTarget(t)]
    /\ tasks = ScenarioGraph.tasks
    /\ deps = ScenarioGraph.deps
    /\ ntasks = ScenarioGraph.ntasks
    /\ store = [t \in Tasks |-> None]
    /\ prof = <<>>
    /\ proflock = 0
    /\ pc = "build"
    /\ maxw = 0
    /\ idx = 0
    /\ indegree = <<>>
    /\ dependents = <<>>
    /\ ready = <<>>
    /\ running = {}
    /\ pending = {}
    /\ completed = 0
    /\ st = [t \in Tasks |-> "new"]
    /\ res = [t \in Tasks |-> "pending"]
    /\ nrun = [t \in Tasks |-> 0]

\* The scenario calls run_parallel(max_workers=2).
NextScenario ==
    \/ run_parallel(2)
    \/ par_while
    \/ \E t \in Tasks : par_collect(t)
    \/ par_shutdown
    \/ \E t \in Tasks : worker_start(t)
    \/ \E t \in Tasks, r \in Outcomes : worker_op_end(t, r)
    \/ \E t \in Tasks : worker_accum_enter(t)
    \/ \E t \in Tasks : worker_accum_exit(t)

SpecScenario == InitScenario /\ [][NextScenario]_vars

(* ------------------ specification: Task.sign_match -------------------- *)

\* The Task objects sign_match is called on: any of three targets (two of
\* them named), two method names, and keyword arguments whose values are any
\* subset of {"tw1", None}.
MatchTargets == {"model_a", "model_b", "catalog_repo"}
MatchMethods == {"create_forecast", "get_forecast"}
MatchTasks ==
    {TaskOf(o, m, kws) : o \in MatchTargets, m \in MatchMethods, kws \in SUBSET {"tw1", None}}
\* The arguments it is called with.
MatchInstArgs == MatchTargets \cup {ObjName(o) : o \in MatchTargets}
MatchMethArgs == MatchMethods \cup {None}
MatchKwArgs == {"tw1", "tw2", None}

\* A call task.sign_match(inst, meth, kw_arg).
task_sign_match(task, inst, meth, kw_arg) ==
    /\ call' = [op |-> "sign_match", args |-> <<task, inst, meth, kw_arg>>]
    /\ ret' = Return(Task_sign_match(task, inst, meth, kw_arg))
    /\ UNCHANGED <<engineVars, regVars>>

NextMatch ==
    \E task \in MatchTasks, inst \in MatchInstArgs, meth \in MatchMethArgs, kw \in MatchKwArgs :
        task_sign_match(task, inst, meth, kw)

SpecMatch == Init /\ [][NextMatch]_vars

(* ----------------- specification: assembling a graph ------------------- *)

\* The Task objects of the caller that assembles the graph: the first one
\* and two more that are structurally identical (same target, same method,
\* same arguments) and still distinct objects.
Twins == {NTasks + 1, NTasks + 2}
BuildTasks == {1} \cup Twins
BuildInstArgs ==
    {TaskTarget(t) : t \in BuildTasks} \cup {ObjName(TaskTarget(t)) : t \in BuildTasks}
BuildMethArgs == {TaskMethod(t) : t \in BuildTasks} \cup {None}

InitBuild ==
    /\ InitRest
    /\ tasks = <<>>
    /\ deps = <<>>
    /\ ntasks = 0
    /\ obj = [t \in BuildTasks |-> TaskTarget(t)]
    /\ store = [t \in BuildTasks |-> None]
    /\ prof = <<>>
    /\ proflock = 0
    /\ pc = "build"
    /\ maxw = 0
    /\ idx = 0
    /\ indegree = <<>>
    /\ dependents = <<>>
    /\ ready = <<>>
    /\ running = {}
    /\ pending = {}
    /\ completed = 0
    /\ st = [t \in BuildTasks |-> "new"]
    /\ res = [t \in BuildTasks |-> "pending"]
    /\ nrun = [t \in BuildTasks |-> 0]

\* The caller adds any of its Task objects, one already added included, and
\* declares dependencies for any of them, one never added included.
NextBuild ==
    \/ \E t \in BuildTasks : add(t)
    \/ \E t \in BuildTasks, inst \in BuildInstArgs, meth \in BuildMethArgs, kw \in KwArgs :
          add_dependency(t, inst, meth, kw)

SpecBuild == InitBuild /\ [][NextBuild]_vars

(* ----------- specification: how a call of add_dependency ends ---------- *)

\* The signatures the caller names: the first task's, by its target, and
\* the like tasks', by their target's name; the argument value or nothing.
DependInstArgs == {TaskTarget(1), ObjName(TaskTarget(NTasks + 1))}
DependMethArgs == {TaskMethod(1), TaskMethod(NTasks + 1)}

\* The caller adds any of its Task objects and declares dependencies for any
\* of them, one never added included, keeping how each call ended.
NextDepend ==
    \/ \E t \in BuildTasks : add(t)
    \/ \E t \in BuildTasks, inst \in DependInstArgs, meth \in DependMethArgs, kw \in KwArgs :
          add_dependency_call(t, inst, meth, kw)

SpecDepend == InitBuild /\ [][NextDepend]_vars

(* -------------- specification: Task.run and nested tasks --------------- *)

\* Task.__init__ of the t-th Task object: its instance is the target of the
\* table or a Task object created before it.
InstanceChoices(t) == {TaskTarget(t)} \cup {o \in TaskObjects : RefTask(o) < t}

\* The graph holds every Task object once, added in the order of creation
\* or in the reverse order, with no dependency declared.
InitRun ==
    /\ InitRest
    /\ tasks \in {[i \in 1..NTasks |-> i], [i \in 1..NTasks |-> NTasks + 1 - i]}
    /\ deps = [t \in Tasks |-> <<>>]
    /\ ntasks = NTasks
    /\ obj \in {f \in [Tasks -> {TaskTarget(t) : t \in Tasks} \cup TaskObjects] :
                   \A t \in Tasks : f[t] \in InstanceChoices(t)}
    /\ store = [t \in Tasks |-> None]
    /\ prof = <<>>
    /\ proflock = 0
    /\ pc = "build"
    /\ maxw = 0
    /\ idx = 0
    /\ indegree = <<>>
    /\ dependents = <<>>
    /\ ready = <<>>
    /\ running = {}
    /\ pending = {}
    /\ completed = 0
    /\ st = [t \in Tasks |-> "new"]
    /\ res = [t \in Tasks |-> "pending"]
    /\ nrun = [t \in Tasks |-> 0]

\* The serial run, an operation returning None, an empty value, a non-empty
\* value, or raising.
NextRun ==
    \/ run
    \/ \E r \in Outcomes \cup {Empty} : run_step(r)
    \/ run_end

SpecRun == InitRun /\ [][NextRun]_vars

(* ----------------------------- registries ----------------------------- *)

\* The keys a caller passes to get_attr: a str, a list or tuple (a time
\* window: its two dates), an object with a name attribute, an object with
\* only __name__ (a function), and anything else (an int).
KeyStr(x) == [kind |-> "str", v |-> x]
KeyList(w) == [kind |-> "list", v |-> w]
KeyNamed(n) == [kind |-> "name", v |-> n]
KeyFunction(n) == [kind |-> "__name__", v |-> n]
KeyOther(x) == [kind |-> "other", v |-> x]

\* floatcsep.utils.helpers.timewindow2str of one time window [start, end]:
\* the two dates joined by "_"; and of a sequence of time windows: the
\* sequence of their strings.
timewindow2str(w) == w[1] \o "_" \o w[2]
timewindows2str(ws) == [i \in 1..Len(ws) |-> timewindow2str(ws[i])]

\* FilepathMixin._parse_arg.
_parse_arg(arg) ==
    CASE arg.kind = "list" -> Return(timewindow2str(arg.v))
      [] arg.kind = "str" -> Return(arg.v)
      [] arg.kind = "name" -> Return(arg.v)
      [] arg.kind = "__name__" -> Return(arg.v)
      [] OTHER -> Raised("Exception")

\* Variant of Walk that stops at the first key that is absent and goes on
\* with the value it has reached.
RECURSIVE WalkWhileFound(_, _)
WalkWhileFound(val, args) ==
    IF args = <<>>
    THEN Return(val)
    ELSE LET parsed_arg == _parse_arg(Head(args)) IN
         IF parsed_arg.kind = "raise" THEN parsed_arg
         ELSE IF ~IsDict(val) THEN Raised("TypeError")
         ELSE IF parsed_arg.val \notin DOMAIN val.d THEN Return(val)
         ELSE WalkWhileFound(val.d[parsed_arg.val], Tail(args))

\* The loop of get_attr from the value val on: val = val[parsed_arg].
\* Subscripting a str, a Path or another object with a str is a TypeError.
RECURSIVE Walk(_, _)
Walk(val, args) ==
    IF args = <<>>
    THEN Return(val)
    ELSE LET parsed_arg == _parse_arg(Head(args)) IN
         IF parsed_arg.kind = "raise" THEN parsed_arg
         ELSE IF ~IsDict(val) THEN Raised("TypeError")
         ELSE IF parsed_arg.val \notin DOMAIN val.d THEN Raised("KeyError")
         ELSE Walk(val.d[parsed_arg.val], Tail(args))

\* Path(cur, *paths) of values that are true: an absolute path replaces
\* what precedes it, a relative one is joined to it; an empty dict is false
\* and left out by abs; any other value is a TypeError.
RECURSIVE PathFrom(_, _)
PathFrom(cur, paths) ==
    IF paths = <<>>
    THEN Return(Leaf(cur, TRUE))
    ELSE LET x == Head(paths) IN
         IF IsLeaf(x)
         THEN PathFrom(IF x.abs THEN x.p ELSE Join(cur, x.p), Tail(paths))
         ELSE IF IsDict(x) /\ DOMAIN x.d = {}
         THEN PathFrom(cur, Tail(paths))
         ELSE Raised("TypeError")

\* FilepathMixin.abs of the registry whose __dict__ is self.
abs(self, paths) == PathFrom(self.d.workdir.p, paths)

\* FilepathMixin.get_attr.
FilepathMixin_get_attr(self, args) ==
    LET val == Walk(self, args) IN
    IF val.kind = "raise" THEN val ELSE abs(self, <<val.val>>)

\* ExperimentFileRegistry.get_attr.
ExperimentFileRegistry_get_attr(self, args) ==
    LET val == Walk(self, args) IN
    IF val.kind = "raise" THEN val ELSE abs(self, <<self.d.run_dir, val.val>>)

\* Variant of AddModelRegistry that keeps the entry a name already has.
AddModelRegistryOnce(self, model) ==
    [self EXCEPT !.d.model_registries.d = @ @@ (model.name :> Object(model.registry))]

\* ExperimentFileRegistry.add_model_registry:
\* self.model_registries[model.name] = model.registry.
AddModelRegistry(self, model) ==
    [self EXCEPT !.d.model_registries.d = (model.name :> Object(model.registry)) @@ @]

\* ExperimentFileRegistry.get_model_registry: dict.get gives None for a
\* name that is not a key.
GetModelRegistry(self, model_name) ==
    LET model_registries == self.d.model_registries.d IN
    IF model_name \in DOMAIN model_registries
    THEN Return(model_registries[model_name].o)
    ELSE Return(None)

\* The elements of a sequence.
Range(seq) == {seq[i] : i \in 1..Len(seq)}

\* build_tree: the dict comprehension "results".
TreeResults(windows, tests, models) ==
    Dict([win \in windows |->
            Dict([test \in tests |->
                    Dict([model \in models |->
                            Leaf(Join(Join(win, "evaluations"),
                                      test \o "_" \o model \o ".json"), FALSE)])])])

\* Variant of TreeCatalogs keyed by the file name instead of the window.
TreeCatalogsByFile(windows) ==
    Dict([f \in {Join(Join(win, "catalog"), "test_catalog.json") : win \in windows} |->
            Leaf(f, FALSE)])

\* build_tree: the dict comprehension "test_catalogs".
TreeCatalogs(windows) ==
    Dict([win \in windows |-> Leaf(Join(Join(win, "catalog"), "test_catalog.json"), FALSE)])

\* build_tree: the dict display "figures"; in a display a later key
\* replaces an equal earlier one.
TreeFigures(windows, tests, models) ==
    Dict([win \in windows |->
            Dict(("forecasts" :>
                     Dict([model \in models |->
                             Leaf(Join(Join(win, "figures"), "forecast_" \o model), FALSE)]))
                 @@ ("catalog_time" :> Leaf(Join(Join(win, "figures"), "catalog_time"), FALSE))
                 @@ ("catalog_map" :> Leaf(Join(Join(win, "figures"), "catalog_map"), FALSE))
                 @@ [test \in tests |-> Leaf(Join(Join(win, "figures"), test), FALSE)])]
         @@ ("main_catalog_time" :> Leaf("events", FALSE))
         @@ ("main_catalog_map" :> Leaf("catalog", FALSE)))

\* build_tree: the directories handed to os.makedirs.
TreeDirs(run_folder, windows, models, run_mode) ==
    LET subfolders == {"catalog", "evaluations", "figures"}
                          \cup (IF run_mode = "parallel" THEN {"input"} ELSE {})
    IN {Join(Join(run_folder, win), folder) : win \in windows, folder \in subfolders}
       \cup (IF run_mode = "parallel"
             THEN {Join(Join(Join(run_folder, win), "input"), model) :
                      win \in windows, model \in models}
             ELSE {})

(* ---------------- specification: the experiment registry --------------- *)

\* The Model objects (name, registry) and Evaluation objects (name) of the
\* caller; two of the models have the same name.
Models == {[name |-> "modelA", registry |-> "registry_a1"],
           [name |-> "modelA", registry |-> "registry_a2"],
           [name |-> "modelB", registry |-> "registry_b"]}
ModelNames == {m.name : m \in Models} \cup {"modelC"}
Tests == {[name |-> "N-test"], [name |-> "S-test"]}
\* The time windows of the tests.
Window1 == <<"2023-01-01", "2023-01-02">>
Window2 == <<"2023-01-02", "2023-01-03">>

\* The arguments of build_tree.
TimeWindowArgs == {<<>>, <<Window1>>, <<Window1, Window2>>}
ModelArgs == {<<>>, <<[name |-> "modelA", registry |-> "registry_a1"],
                     [name |-> "modelB", registry |-> "registry_b"]>>}
TestArgs == {<<[name |-> "N-test"]>>, <<[name |-> "N-test"], [name |-> "S-test"]>>}
RunModes == {"sequential", "parallel"}

\* The arguments of get_attr on the registry of TestFilepathMixin.
DummyKeys == {KeyStr("forecasts"), KeyFunction("catalogs"),
              KeyStr("2020-01-01_2020-01-02"), KeyStr("nope"),
              KeyNamed("cat1"), KeyList(Window1), KeyOther("123")}
DummyArgs ==
    {<<>>} \cup {<<k>> : k \in DummyKeys}
    \cup {<<k, l>> : k \in {KeyStr("forecasts"), KeyFunction("catalogs"), KeyOther("123")},
                     l \in DummyKeys}

\* The arguments of get_attr on the experiment registry.
RegistryKeys == {KeyStr("results"), KeyStr("test_catalogs"), KeyStr("model_registries"),
                 KeyList(Window1), KeyList(Window2), KeyNamed("S-test"),
                 KeyNamed("modelA"), KeyOther("123")}
RegistryArgs ==
    {<<k>> : k \in RegistryKeys}
    \cup {<<k, l>> : k \in {KeyStr("test_catalogs"), KeyStr("model_registries")},
                     l \in RegistryKeys}
    \cup {<<KeyStr("results"), KeyList(Window1), k>> : k \in RegistryKeys}
    \cup {<<KeyStr("results"), KeyList(Window1), KeyNamed("S-test"), k>> : k \in RegistryKeys}

\* registry.add_model_registry(model).
add_model_registry(model) ==
    /\ registry' = AddModelRegistry(registry, model)
    /\ call' = [op |-> "add_model_registry", args |-> <<model>>]
    /\ ret' = Return(None)
    /\ UNCHANGED <<engineVars, dummy, fs>>

\* registry.get_model_registry(model_name).
get_model_registry(model_name) ==
    /\ call' = [op |-> "get_model_registry", args |-> <<model_name>>]
    /\ ret' = GetModelRegistry(registry, model_name)
    /\ UNCHANGED <<engineVars, regVars>>

\* registry.build_tree(time_windows, models, tests, run_mode).
build_tree(time_windows, models, tests, run_mode) ==
    LET windows == Range(timewindows2str(time_windows))
        model_names == {m.name : m \in Range(models)}
        test_names == {e.name : e \in Range(tests)}
    IN /\ fs' = fs \cup TreeDirs(registry.d.run_dir.p, windows, model_names, run_mode)
       /\ registry' = [registry EXCEPT
                          !.d.results = TreeResults(windows, test_names, model_names),
                          !.d.test_catalogs = TreeCatalogs(windows),
                          !.d.figures = TreeFigures(windows, test_names, model_names)]
       /\ call' = [op |-> "build_tree", args |-> <<time_windows, models, tests, run_mode>>]
       /\ ret' = Return(None)
       /\ UNCHANGED <<engineVars, dummy>>

\* dummy.get_attr(*args): FilepathMixin.get_attr.
dummy_get_attr(args) ==
    /\ call' = [op |-> "dummy.get_attr", args |-> args]
    /\ ret' = FilepathMixin_get_attr(dummy, args)
    /\ UNCHANGED <<engineVars, regVars>>

\* registry.get_attr(*args): ExperimentFileRegistry.get_attr.
registry_get_attr(args) ==
    /\ call' = [op |-> "registry.get_attr", args |-> args]
    /\ ret' = ExperimentFileRegistry_get_attr(registry, args)
    /\ UNCHANGED <<engineVars, regVars>>

NextRegistry ==
    \/ \E model \in Models : add_model_registry(model)
    \/ \E model_name \in ModelNames : get_model_registry(model_name)
    \/ \E time_windows \in TimeWindowArgs, models \in ModelArgs, tests \in TestArgs,
            run_mode \in RunModes : build_tree(time_windows, models, tests, run_mode)
    \/ \E args \in DummyArgs : dummy_get_attr(args)
    \/ \E args \in RegistryArgs : registry_get_attr(args)

SpecRegistry == Init /\ [][NextRegistry]_vars

(* ------------- specification: run_parallel on built graphs ------------- *)

\* The Task objects of the caller of run_parallel: one more than NTasks, so
\* that with max_workers = MaxWorkers a task can wait in the ready queue
\* while another one, submitted by a backfill, has already finished.
ParTasks == 1..(NTasks + 1)

\* g.add(t) for the first n Task objects, in the order of their creation.
RECURSIVE AddAll(_, _)
AddAll(g, n) == IF n = 0 THEN g ELSE AddTo(AddAll(g, n - 1), n)

\* g.add_dependency(t, d.obj, d.method, "tw1"): t is made to depend on the
\* tasks that have d's signature.
DependOn(g, t, d) == AddDependencyTo(g, t, TaskTarget(d), TaskMethod(d), "tw1")

\* A sequence of such calls, each a pair <<t, d>>.
RECURSIVE Declare(_, _)
Declare(g, calls) ==
    IF calls = <<>> THEN g
    ELSE Declare(DependOn(g, Head(calls)[1], Head(calls)[2]), Tail(calls))

\* The dependencies the caller declares: none; one; the same one twice; a
\* chain; a fan-out; a fan-in; a dependency on a task added later; a task
\* that matches its own signature, with a dependent; a cycle of two tasks,
\* with a dependent; a dependency twice next to another one; a diamond; a
\* cycle of three tasks.
ParDeclarations ==
    { <<>>,
      << <<2, 1>> >>,
      << <<2, 1>>, <<2, 1>> >>,
      << <<2, 1>>, <<3, 2>> >>,
      << <<2, 1>>, <<3, 1>> >>,
      << <<3, 1>>, <<3, 2>> >>,
      << <<1, 3>> >>,
      << <<1, 1>>, <<2, 1>> >>,
      << <<1, 2>>, <<2, 1>>, <<3, 2>> >>,
      << <<3, 1>>, <<3, 2>>, <<3, 1>> >>,
      << <<2, 1>>, <<3, 1>>, <<4, 2>>, <<4, 3>> >>,
      << <<2, 1>>, <<3, 2>>, <<1, 3>> >> }

InitPar ==
    /\ InitCalls
    /\ obj = [t \in ParTasks |-> TaskTarget(t)]
    /\ \E calls \in ParDeclarations :
          LET g == Declare(AddAll(EmptyGraph, NTasks + 1), calls) IN
          /\ tasks = g.tasks
          /\ deps = g.deps
          /\ ntasks = g.ntasks
    /\ store = [t \in ParTasks |-> None]
    /\ prof = <<>>
    /\ proflock = 0
    /\ pc = "build"
    /\ maxw = 0
    /\ idx = 0
    /\ indegree = <<>>
    /\ dependents = <<>>
    /\ ready = <<>>
    /\ running = {}
    /\ pending = {}
    /\ completed = 0
    /\ st = [t \in ParTasks |-> "new"]
    /\ res = [t \in ParTasks |-> "pending"]
    /\ nrun = [t \in ParTasks |-> 0]
    /\ recv = [t \in ParTasks |-> None]
    /\ s_count = [t \in ParTasks |-> 0]

\* The caller calls run_parallel(k) with k = 1 or k = MaxWorkers; the
\* controller and the pool's workers take their steps in any order.
NextPar ==
    \/ \E k \in {1, MaxWorkers} : run_parallel(k)
    \/ par_while
    \/ \E t \in ParTasks : par_collect(t)
    \/ par_shutdown
    \/ \E t \in ParTasks : worker_start(t)
    \/ \E t \in ParTasks, r \in Outcomes : worker_op_end(t, r)
    \/ \E t \in ParTasks : worker_accum_enter(t)
    \/ \E t \in ParTasks : worker_accum_exit(t)

SpecPar == InitPar /\ [][NextPar]_vars

(* -------------- specification: _accum, statement by statement ---------- *)

\* The Task objects of the caller: two that are built alike, whose runs are
\* accumulated into the same bucket, and one more.
AccTasks == Twins \cup {1}

\* _accum, "s = self._prof[bucket]" and the read of s["count"] += 1: the
\* defaultdict makes a missing bucket with count 0, and the worker holds the
\* count it read.
accum_read(t) ==
    /\ PoolAlive
    /\ st[t] = "locked"
    /\ LET b == Bucket(t, TaskTarget(t))
           p == IF b \in DOMAIN prof THEN prof ELSE prof @@ (b :> 0)
       IN /\ prof' = p
          /\ s_count' = [s_count EXCEPT ![t] = p[b]]
    /\ st' = [st EXCEPT ![t] = "read"]
    /\ UNCHANGED <<recv, regVars, callVars, graphVars, taskVars, proflock, pc, idx, parVars, res, nrun>>

\* _accum, the write of s["count"] += 1: the count read, plus one, is stored.
accum_write(t) ==
    /\ PoolAlive
    /\ st[t] = "read"
    /\ prof' = [prof EXCEPT ![Bucket(t, TaskTarget(t))] = s_count[t] + 1]
    /\ st' = [st EXCEPT ![t] = "written"]
    /\ UNCHANGED <<recv, regVars, callVars, s_count, graphVars, taskVars, proflock, pc, idx, parVars, res, nrun>>

\* _accum, the end of the "with" block: the lock is released; _timed returns
\* or re-raises and the future is set.
accum_release(t) ==
    /\ PoolAlive
    /\ st[t] = "written"
    /\ proflock' = 0
    /\ st' = [st EXCEPT ![t] = "finished"]
    /\ UNCHANGED <<recv, regVars, callVars, s_count, graphVars, taskVars, prof, pc, idx, parVars, res, nrun>>

\* The graph holds the two like tasks and then the third, without
\* dependencies.
InitAccum ==
    /\ InitCalls
    /\ obj = [t \in AccTasks |-> TaskTarget(t)]
    /\ LET g == AddTo(AddTo(AddTo(EmptyGraph, NTasks + 1), NTasks + 2), 1) IN
       /\ tasks = g.tasks
       /\ deps = g.deps
       /\ ntasks = g.ntasks
    /\ store = [t \in AccTasks |-> None]
    /\ prof = <<>>
    /\ proflock = 0
    /\ pc = "build"
    /\ maxw = 0
    /\ idx = 0
    /\ indegree = <<>>
    /\ dependents = <<>>
    /\ ready = <<>>
    /\ running = {}
    /\ pending = {}
    /\ completed = 0
    /\ st = [t \in AccTasks |-> "new"]
    /\ res = [t \in AccTasks |-> "pending"]
    /\ nrun = [t \in AccTasks |-> 0]
    /\ recv = [t \in AccTasks |-> None]
    /\ s_count = [t \in AccTasks |-> 0]

\* run_parallel(MaxWorkers), with the workers' _accum taken one statement at
\* a time.
NextAccum ==
    \/ run_parallel(MaxWorkers)
    \/ par_while
    \/ \E t \in AccTasks : par_collect(t)
    \/ par_shutdown
    \/ \E t \in AccTasks : worker_start(t)
    \/ \E t \in AccTasks, r \in Outcomes : worker_op_end(t, r)
    \/ \E t \in AccTasks : worker_accum_enter(t)
    \/ \E t \in AccTasks : accum_read(t)
    \/ \E t \in AccTasks : accum_write(t)
    \/ \E t \in AccTasks : accum_release(t)

SpecAccum == InitAccum /\ [][NextAccum]_vars

(* ----------------- specification: TaskGraph._bucket -------------------- *)

\* The Task objects _bucket is called on: any of the methods of the table and
\* one that is not in it; a target without a type, with a type, with an
\* empty type, a Task object, the None a nested task is left with, or no
\* target at all (deleted by run()); any keyword arguments.
BucketMethods ==
    {"set_test_cat", "set_input_cat", "create_forecast", "get_forecast", "compute", "plot_results"}
BucketTargets == {"catalog_repo", "model_a", "test_n", "test_blank", "task_1", None, Deleted}
BucketTasks ==
    {TaskOf(o, m, kws) : o \in BucketTargets, m \in BucketMethods, kws \in SUBSET {"tw1", None}}

\* A call graph._bucket(task).
graph_bucket(task) ==
    /\ call' = [op |-> "_bucket", args |-> <<task>>]
    /\ ret' = _bucket(task)
    /\ UNCHANGED <<engineVars, regVars>>

NextBucket == \E task \in BucketTasks : graph_bucket(task)

SpecBucket == Init /\ [][NextBucket]_vars

(* ------------------------ vocabulary of the claims --------------------- *)

InParallel == pc \in {"par_loop", "par_exc"} \/ (pc \in {"done", "raised"} /\ maxw > 0)
InSerial == pc = "serial" \/ (pc \in {"done", "raised"} /\ idx > 0)
Returned == pc = "done"
Finished == pc \in {"done", "raised"}

\* The operation of t has been started / has ended (returned or raised).
Started(t) == nrun[t] > 0
Ended(t) == res[t] # "pending"

DepSet(t) == {deps[t][j] : j \in 1..Len(deps[t])}

RECURSIVE Closure(_, _)
Closure(S, n) ==
    IF n = 0 THEN S
    ELSE Closure(S \cup UNION {DepSet(x) : x \in S \cap Keys}, n - 1)

\* The tasks t depends on, directly or transitively.
Ancestors(t) == Closure(DepSet(t), NTasks)

OnCycle(t) == t \in Ancestors(t)
HasCycle == \E t \in Keys : OnCycle(t)
Acyclic == ~HasCycle
NoDeps == \A t \in Keys : deps[t] = <<>>

\* Tasks submitted to the pool and not yet collected; tasks inside _timed.
InFlight == {t \in Tasks : st[t] \in {"submitted", "running", "finally", "locked", "finished"}}
Executing == {t \in Tasks : st[t] \in {"running", "finally", "locked"}}

\* The steps of run_parallel's controller and of the pool's workers.
ParNext ==
    \/ par_while
    \/ \E t \in Tasks : par_collect(t)
    \/ par_shutdown
    \/ \E t \in Tasks : worker_start(t)
    \/ \E t \in Tasks, r \in Outcomes : worker_op_end(t, r)
    \/ \E t \in Tasks : worker_accum_enter(t)
    \/ \E t \in Tasks : worker_accum_exit(t)

(* ------------------------------ claims --------------------------------- *)

\* C1: in run_parallel on an acyclic graph, whenever the operation of a task
\* has been started, the operation of every task in its dependency list has
\* already ended (returned or raised).
C1_DepsEndBeforeStart ==
    (InParallel /\ Acyclic) =>
        \A t \in Keys : \A d \in DepSet(t) : Started(t) => Ended(d)

\* C1 witness: a dependent has been started after its dependency raised,
\* with two workers.
C1_Witness ==
    /\ InParallel /\ Acyclic /\ maxw = 2
    /\ \E t \in Keys : \E d \in DepSet(t) : Started(t) /\ res[d] = Raise

\* C2: during run_parallel(max_workers = k) at most k tasks are in flight
\* (submitted and not yet collected), hence at most k operations execute.
C2_AtMostKInFlight ==
    InParallel =>
        /\ Cardinality(InFlight) <= maxw
        /\ Cardinality(running) <= maxw
        /\ Cardinality(Executing) <= maxw

\* C2 witness: both of two workers are executing while a third task waits
\* in the ready queue.
C2_Witness ==
    InParallel /\ maxw = 2 /\ Cardinality(Executing) = 2 /\ ready # <<>>

\* C3: with no declared dependencies and no operation raising, no task is
\* ever run twice, and when run() or run_parallel is over every task has
\* been run exactly once, whatever the operations returned.
C3_EveryTaskExactlyOnce ==
    (NoDeps /\ \A t \in Tasks : res[t] # Raise) =>
        /\ \A t \in Keys : nrun[t] <= 1
        /\ Finished => \A t \in Keys : nrun[t] = 1

\* The graph is A -> B, A -> C: B and C each depend on A alone.
FanOut(a, b, c) ==
    /\ Keys = {a, b, c} /\ a # b /\ a # c /\ b # c
    /\ deps[a] = <<>> /\ deps[b] = <<a>> /\ deps[c] = <<a>>

\* C4: in run_parallel on A -> B, A -> C with A's operation raising, A is
\* counted and its dependents' indegrees are decremented when it is
\* collected, B and C are started, and run_parallel does not raise.
C4_FailureIsolation ==
    \A a, b, c \in Tasks :
        (InParallel /\ FanOut(a, b, c) /\ res[a] = Raise) =>
            /\ st[a] = "collected" => (completed >= 1 /\ indegree[b] = 0 /\ indegree[c] = 0)
            /\ pc \notin {"par_exc", "raised"}
            /\ Finished => (Started(b) /\ Started(c))

\* C5: every step of run_parallel that collects a task whose operation
\* returned (nothing, or a non-empty value that Task.run stored) counts the
\* task as completed, decrements the indegree of each dependent once per
\* occurrence in its list, and leaves the run going.
C5_SuccessIsCounted ==
    [][\A t \in Tasks :
          (pc = "par_loop" /\ t \in running /\ t \notin running' /\ res[t] \in Returns) =>
              /\ completed' = completed + 1
              /\ pc' = "par_loop"
              /\ \A d \in Keys : indegree'[d] = indegree[d] - Occurrences(deps[d], t)]_vars

\* C6: in the serial run(), once an operation has raised, run() has raised
\* and no task later in insertion order has been or is ever executed.
C6_SerialAbortsOnRaise ==
    InSerial =>
        \A i \in 1..Len(tasks) :
            res[tasks[i]] = Raise =>
                /\ pc = "raised"
                /\ \A j \in (i + 1)..Len(tasks) : nrun[tasks[j]] = 0 /\ ~Ended(tasks[j])

\* C6 witness: A, B, C were added, A's operation raised and run() is over.
C6_Witness ==
    InSerial /\ Len(tasks) = 3 /\ res[tasks[1]] = Raise /\ pc = "raised"

\* C7: on an acyclic graph, when run_parallel is over it has returned with
\* nothing in flight and an empty ready queue, every task has been executed
\* once and the completed count equals the number of tasks.
C7_ParallelRunsEverything ==
    (InParallel /\ Acyclic /\ Finished) =>
        /\ Returned
        /\ running = {} /\ ready = <<>>
        /\ \A t \in Keys : nrun[t] = 1
        /\ completed = Len(tasks)

\* C8 as stated: with a cycle among the dependencies run_parallel never
\* returns.
C8_CycleNeverReturns == (InParallel /\ HasCycle) => ~Returned

\* C8 as amended: with a cycle among the dependencies the tasks on the cycle
\* stay at positive indegree and are never submitted or started; the
\* controller never blocks for good (until run_parallel is over some step of
\* it or of a worker is possible) and run_parallel returns with a completed
\* count below the number of tasks; the cycle itself raises nothing (the run
\* raises only after an operation returned a non-empty value).
C8_CycleSkippedSilently ==
    (InParallel /\ HasCycle) =>
        /\ \A t \in Keys : OnCycle(t) => (indegree[t] > 0 /\ st[t] = "new" /\ ~Started(t))
        /\ ~Finished => ENABLED ParNext
        /\ Returned => (completed < Len(tasks) /\ running = {})
        /\ pc \in {"par_exc", "raised"} => \E t \in Keys : res[t] = "out"

\* C8 witness: run_parallel has returned from a graph with a cycle after
\* running a task off the cycle.
C8_Witness ==
    InParallel /\ HasCycle /\ Returned /\ completed >= 1

C10_ScenarioOrderAndProfile ==
    /\ Started(2) => Ended(1)
    /\ Started(3) => Ended(2)
    /\ Finished =>
          /\ Returned /\ completed = 3
          /\ <<"prep", "set_input_cat">> \in DOMAIN prof
          /\ <<"model", "create_forecast">> \in DOMAIN prof
          /\ \E b \in DOMAIN prof : b[1] = "eval" /\ b[2] = "compute"
          /\ \A b \in DOMAIN prof : prof[b] = 1

C12_CountEqualsTasks == ntasks = Len(tasks)

\* C13: after any sequence of add and add_dependency calls, every task in
\* some task's dependency list is itself a key of the tasks mapping.
C13_DepsAreKeys ==
    \A t \in Keys : \A i \in 1..Len(deps[t]) : deps[t][i] \in Keys

\* C13 witness: a task has been given a dependency other than itself, and a
\* task object has not been added.
C13_Witness ==
    /\ \E t \in Keys : \E i \in 1..Len(deps[t]) : deps[t][i] # t
    /\ \E u \in DOMAIN obj : u \notin Keys

\* The registered tasks that meet the three criteria, as a set, and the
\* place of a registered task in the insertion order.
MatchSet(inst, meth, kw) ==
    {o \in Keys : /\ (obj[o] = inst \/ inst = ObjName(obj[o]))
                  /\ meth = TaskMethod(o)
                  /\ kw \in TaskKwargs(o)}
Place(o) == CHOOSE i \in 1..Len(tasks) : tasks[i] = o
\* s lists exactly the tasks of M, each once, in insertion order.
ListsInOrder(s, M) ==
    /\ Len(s) = Cardinality(M)
    /\ {s[i] : i \in 1..Len(s)} = M
    /\ \A i, j \in 1..Len(s) : i < j => Place(s[i]) < Place(s[j])

\* The step appends to the list of t, and to no other, exactly the
\* registered tasks matching some signature, in insertion order, and changes
\* neither the set of tasks nor ntasks.
AppendsMatchesTo(t) ==
    /\ tasks' = tasks
    /\ ntasks' = ntasks
    /\ \A u \in Keys \ {t} : deps'[u] = deps[u]
    /\ Len(deps'[t]) > Len(deps[t])
    /\ SubSeq(deps'[t], 1, Len(deps[t])) = deps[t]
    /\ \E inst \in BuildInstArgs, meth \in BuildMethArgs, kw \in KwArgs :
           ListsInOrder(SubSeq(deps'[t], Len(deps[t]) + 1, Len(deps'[t])),
                        MatchSet(inst, meth, kw))

RunReturned(t) == nrun[t] > 0 /\ res[t] # Raise

\* C15: when Task.run has returned the operation's value, a non-empty value
\* is the task's store and the target has been released; after an empty
\* value (None or another false value) the store is still empty and the
\* target kept.  The store is set at most once during a run of the graph: it
\* only changes from empty to the value returned, and never again.
C15_StoreOnlyNonEmptyOnce ==
    /\ [](\A t \in Tasks :
            RunReturned(t) =>
                IF res[t] \in {None, Empty}
                THEN store[t] = None /\ obj[t] # Deleted
                ELSE store[t] = res[t] /\ obj[t] = Deleted)
    /\ [][\A t \in Tasks :
            store'[t] # store[t] =>
                store[t] = None /\ store'[t] = res'[t] /\ nrun[t] = 0]_vars

\* C15 witness: one task has returned a non-empty value and another one an
\* empty value that is not None.
C15_Witness ==
    \E t, u \in Tasks :
        /\ RunReturned(t) /\ res[t] = "out" /\ store[t] = "out"
        /\ RunReturned(u) /\ res[u] = Empty /\ store[u] = None

\* C16: when the target of a task has a store field (it is an earlier
\* task), Task.run looks the operation up on the value held in that store
\* and not on the wrapping Task object; if that task has run and stored a
\* result, the operation is invoked on that result.
C16_OperatesOnStoredValue ==
    [][\A t \in Tasks :
          (nrun'[t] = nrun[t] + 1 /\ ObjHasStore(obj[t])) =>
              /\ recv'[t] = store[RefTask(obj[t])]
              /\ recv'[t] # obj[t]
              /\ res'[t] # Raise => recv'[t] = "out"]_vars

\* C16 witness: a task whose target was an earlier task has had its
\* operation invoked on the result that task had stored, and it returned.
C16_Witness ==
    \E t \in Tasks : recv[t] = "out" /\ RunReturned(t)

\* C17: if the operation raises, the error leaves Task.run (and with it the
\* serial run), nothing is cached as the task's store and the target
\* attribute is not released.
C17_RaiseLeavesTaskAsIs ==
    \A t \in Tasks :
        (nrun[t] > 0 /\ res[t] = Raise) =>
            /\ pc = "raised"
            /\ store[t] = None
            /\ obj[t] # Deleted

\* C17 witness: an operation raised after an earlier task had stored a
\* result.
C17_Witness ==
    \E t, u \in Tasks :
        /\ nrun[t] > 0 /\ res[t] = Raise /\ obj[t] \notin {None, Deleted}
        /\ store[u] = "out"

\* The experiment registry's mappings.
ModelRegistries == registry.d.model_registries.d
Results == registry.d.results.d
TestCatalogs == registry.d.test_catalogs.d
Figures == registry.d.figures.d

\* C18: after add_model_registry(model), get_model_registry(model.name)
\* returns that model's registry; get_model_registry of a name that was
\* never added returns None; adding another model with the same name
\* replaces the earlier entry and leaves the entries of other names as they
\* are.  Names only become keys by add_model_registry, and a fresh registry
\* has none.
C18_AddThenGet ==
    /\ [](call.op = "none" => DOMAIN ModelRegistries = {})
    /\ [][ /\ (call'.op = "add_model_registry" =>
                 LET model == call'.args[1] IN
                 /\ ModelRegistries'[model.name] = Object(model.registry)
                 /\ DOMAIN ModelRegistries' = DOMAIN ModelRegistries \cup {model.name}
                 /\ \A n \in DOMAIN ModelRegistries \ {model.name} :
                        ModelRegistries'[n] = ModelRegistries[n])
            /\ (call'.op # "add_model_registry" => ModelRegistries' = ModelRegistries)
            /\ call'.op = "get_model_registry" =>
                 LET model_name == call'.args[1] IN
                 /\ ret'.kind = "return"
                 /\ (model_name \notin DOMAIN ModelRegistries => ret'.val = None)
                 /\ (model_name \in DOMAIN ModelRegistries =>
                        ret'.val = ModelRegistries[model_name].o)
                 /\ ((call.op = "add_model_registry" /\ call.args[1].name = model_name)
                        => ret'.val = call.args[1].registry) ]_vars

\* C18 witness: with a model of another name registered, the registry of
\* the second model named "modelA" has been looked up by that name.
C18_Witness ==
    /\ call.op = "get_model_registry" /\ call.args[1] = "modelA"
    /\ ret.val = "registry_a2"
    /\ "modelB" \in DOMAIN ModelRegistries

\* The string of a time window, as the tests expect it.
WindowString(w) ==
    IF w = Window1 THEN "2023-01-01_2023-01-02" ELSE "2023-01-02_2023-01-03"

\* C19: a freshly constructed registry has results, test_catalogs, figures
\* and model_registries empty; after build_tree(time_windows, models, tests)
\* every time-window string is a key of results, of test_catalogs and of
\* figures, and results holds exactly one entry, a path, for every
\* combination of time window, test and model.
C19_TreeHasEveryWindow ==
    /\ (call.op = "none" =>
           /\ registry.d.results = EmptyDict
           /\ registry.d.test_catalogs = EmptyDict
           /\ registry.d.figures = EmptyDict
           /\ registry.d.model_registries = EmptyDict)
    /\ call.op = "build_tree" =>
           LET time_windows == call.args[1]
               models == call.args[2]
               tests == call.args[3]
               windows == {WindowString(time_windows[i]) : i \in 1..Len(time_windows)}
           IN /\ windows = DOMAIN Results
              /\ windows = DOMAIN TestCatalogs
              /\ windows \subseteq DOMAIN Figures
              /\ \A w \in windows :
                     /\ DOMAIN Results[w].d = {tests[j].name : j \in 1..Len(tests)}
                     /\ \A j \in 1..Len(tests) :
                            /\ DOMAIN Results[w].d[tests[j].name].d
                                   = {models[k].name : k \in 1..Len(models)}
                            /\ \A k \in 1..Len(models) :
                                   IsLeaf(Results[w].d[tests[j].name].d[models[k].name])

\* C19 witness: build_tree has been called with two time windows, two
\* models and two tests.
C19_Witness ==
    /\ call.op = "build_tree"
    /\ Len(call.args[1]) = 2 /\ Len(call.args[2]) = 2 /\ Len(call.args[3]) = 2
    /\ IsLeaf(Results["2023-01-02_2023-01-03"].d["S-test"].d["modelB"])

\* The last call was get_attr, and the registry it was made on.
GetAttrCalled == call.op \in {"dummy.get_attr", "registry.get_attr"}
Self == IF call.op = "dummy.get_attr" THEN dummy ELSE registry
\* The string a key stands for.
ParsedKey(k) == IF k.kind = "list" THEN WindowString(k.v) ELSE k.v
\* The value the first i keys lead to, and whether each of them is a key
\* of the mapping it addresses.
RECURSIVE Addressed(_, _, _)
Addressed(d, args, i) ==
    IF i = 0 THEN d ELSE Addressed(d, args, i - 1).d[ParsedKey(args[i])]
RECURSIVE Found(_, _, _)
Found(d, args, i) ==
    IF i = 0 THEN TRUE
    ELSE /\ Found(d, args, i - 1)
         /\ args[i].kind # "other"
         /\ IsDict(Addressed(d, args, i - 1))
         /\ ParsedKey(args[i]) \in DOMAIN Addressed(d, args, i - 1).d

\* C20: get_attr(*keys) walks the registry's nested mappings key by key
\* and returns a path when every key is found and leads to one; when a key
\* is absent from the mapping it addresses, get_attr raises KeyError; a key
\* that is neither a str, a list or tuple, nor an object with a name or
\* __name__ makes it raise; and get_attr leaves the registry unchanged.
C20_GetAttrRaisesAndKeeps ==
    /\ [](GetAttrCalled =>
            LET args == call.args IN
            /\ ((\E i \in 1..Len(args) : args[i].kind = "other") => ret.kind = "raise")
            /\ \A i \in 1..Len(args) :
                   ( /\ Found(Self, args, i - 1)
                     /\ args[i].kind # "other"
                     /\ IsDict(Addressed(Self, args, i - 1))
                     /\ ParsedKey(args[i]) \notin DOMAIN Addressed(Self, args, i - 1).d )
                   => ret = Raised("KeyError")
            /\ (Found(Self, args, Len(args)) /\ IsLeaf(Addressed(Self, args, Len(args))))
                   => (ret.kind = "return" /\ IsLeaf(ret.val)))
    /\ [][call'.op \in {"dummy.get_attr", "registry.get_attr"}
             => (registry' = registry /\ dummy' = dummy /\ fs' = fs)]_vars

\* C20 witness: after build_tree, get_attr on the experiment registry has
\* walked results, a time window and a test, and raised KeyError for the
\* fourth key.
C20_Witness ==
    /\ call.op = "registry.get_attr"
    /\ Len(call.args) = 4
    /\ Found(registry, call.args, 3)
    /\ ret = Raised("KeyError")

(* ----------------- claims about run_parallel, continued ---------------- *)

\* The bucket submit_task computed for t: _bucket is called before the task
\* has run, on the target of __init__.
BucketOf(t) == Bucket(t, TaskTarget(t))

\* The count of bucket b in the profile map (a defaultdict: 0 when absent).
Count(b) == IF b \in DOMAIN prof THEN prof[b] ELSE 0

\* The sum of the counts of all buckets.
RECURSIVE SumCounts(_)
SumCounts(B) ==
    IF B = {} THEN 0
    ELSE LET b == CHOOSE x \in B : TRUE IN prof[b] + SumCounts(B \ {b})

\* _timed of t has left _accum: its future is set (and perhaps collected).
Accumulated(t) == st[t] \in {"finished", "collected"}

\* C21: in run_parallel every task whose operation has ended, by returning
\* or by raising, is accumulated into its bucket exactly once: each bucket's
\* count is the number of its tasks whose _timed is over, no other bucket
\* exists, and when run_parallel is over every executed task has been
\* counted, so that the counts sum to the number of executed tasks.
C21_EveryRunCountsOnce ==
    InParallel =>
        /\ \A t \in Keys :
              Count(BucketOf(t)) =
                  Cardinality({u \in Keys : BucketOf(u) = BucketOf(t) /\ Accumulated(u)})
        /\ DOMAIN prof \subseteq {BucketOf(t) : t \in Keys}
        /\ \A t \in Keys : Accumulated(t) => (Started(t) /\ Ended(t))
        /\ Finished =>
              /\ \A t \in Keys : Started(t) => Accumulated(t)
              /\ SumCounts(DOMAIN prof) = Cardinality({t \in Keys : Started(t)})

\* C21 witness: run_parallel has returned after one operation raised and
\* another returned nothing, and both have been counted.
C21_Witness ==
    /\ InParallel /\ Returned
    /\ \E t, u \in Keys :
          /\ res[t] = Raise /\ res[u] = None
          /\ Count(BucketOf(t)) = 1 /\ Count(BucketOf(u)) = 1

\* The workers inside the "with self._prof_lock" block of _accum.
InAccum == {t \in Keys : st[t] \in {"locked", "read", "written"}}

\* C22: at most one worker is inside the locked block of _accum, and it is
\* the holder of the lock; the count a worker has read is still the bucket's
\* count when it writes; so no update is lost: at every moment each bucket's
\* count is the number of accumulations written into it.
C22_AccumulationsExclude ==
    InParallel =>
        /\ Cardinality(InAccum) <= 1
        /\ \A t \in InAccum : proflock = t
        /\ InAccum = {} => proflock = 0
        /\ \A t \in Keys : st[t] = "read" => s_count[t] = Count(BucketOf(t))
        /\ \A t \in Keys :
              Count(BucketOf(t)) =
                  Cardinality({u \in Keys : /\ BucketOf(u) = BucketOf(t)
                                            /\ st[u] \in {"written", "finished", "collected"}})

\* C22 witness: two workers accumulate into the same bucket at the same
\* time: one has read the count 0 inside the block, the other has ended its
\* operation and waits for the lock.
C22_Witness ==
    /\ InParallel
    /\ \E t, u \in Keys :
          /\ t # u /\ BucketOf(t) = BucketOf(u)
          /\ st[t] = "read" /\ s_count[t] = 0 /\ st[u] = "finally"

\* C23: in run_parallel a worker that is inside the operation does not hold
\* the profile lock; the lock is held only by a worker inside _accum, so a
\* worker that has reached _accum while no other is inside it can enter,
\* whatever operations are still executing.
C23_NoLockDuringOperation ==
    InParallel =>
        /\ \A t \in Keys : st[t] = "running" => proflock # t
        /\ proflock # 0 => st[proflock] = "locked"
        /\ \A u \in Keys :
              (PoolAlive /\ st[u] = "finally" /\ \A w \in Keys : st[w] # "locked") =>
                  ENABLED worker_accum_enter(u)

\* C23 witness: one worker is inside its operation while another one holds
\* the lock inside _accum.
C23_Witness ==
    /\ InParallel
    /\ \E t, u \in Keys : st[t] = "running" /\ st[u] = "locked" /\ proflock = u

\* A step of the worker that runs t: it takes the work item, ends the
\* operation, enters _accum, leaves _accum and sets the future.
WorkerStepOf(t) ==
    <<st[t], st'[t]>> \in {<<"submitted", "running">>, <<"running", "finally">>,
                           <<"finally", "locked">>, <<"locked", "finished">>}

\* C24: during run_parallel a worker's step changes nothing but the profile
\* map, the lock and the state of its own task, and leaves the ready queue,
\* the indegree map, the dependents map, the in-flight set and the completed
\* count as they are; a step that changes one of these is the controller's,
\* changes neither the profile map nor any task's target, store or outcome,
\* and removes from the in-flight set only a task whose worker has set its
\* future.
C24_ControllerOwnsScheduling ==
    [][/\ \A t \in Keys :
             WorkerStepOf(t) =>
                 /\ UNCHANGED <<ready, indegree, dependents, running, pending, completed>>
                 /\ UNCHANGED <<graphVars, maxw, pc>>
                 /\ \A u \in Keys \ {t} :
                        /\ st'[u] = st[u] /\ res'[u] = res[u] /\ nrun'[u] = nrun[u]
                        /\ obj'[u] = obj[u] /\ store'[u] = store[u]
       /\ (InParallel /\ <<ready, indegree, dependents, running>>' #
                         <<ready, indegree, dependents, running>>) =>
              /\ \A t \in Keys : ~WorkerStepOf(t)
              /\ UNCHANGED <<prof, proflock, obj, store, res, nrun>>
              /\ \A t \in running \ running' : st[t] = "finished"]_vars

\* C24 witness: a worker has set its task's future while a task that
\* depends on it is still at positive indegree: the outcome waits for the
\* controller.
C24_Witness ==
    /\ InParallel
    /\ \E t, d \in Keys :
          /\ st[t] = "finished" /\ t \in running
          /\ t \in DepSet(d) /\ indegree[d] > 0

\* The tasks of sub are the first ones of the queue Q, and rest is what
\* follows them.
TakenFromFront(Q, sub, rest) ==
    \E n \in 0..Len(Q) :
        /\ sub = {Q[i] : i \in 1..n}
        /\ rest = SubSeq(Q, n + 1, Len(Q))

\* C25: run_parallel's seed takes the tasks without dependencies in
\* insertion order, and submits those at the front; whenever the controller
\* collects a task, the tasks it releases are queued behind those already
\* waiting, and the tasks it then submits are those at the front of the
\* queue, the others keeping their order.
C25_SubmitsFromTheFront ==
    [][/\ (pc = "build" /\ pc' = "par_loop") =>
              TakenFromFront(SelectSeq(tasks, LAMBDA t : deps[t] = <<>>), running', ready')
       /\ \A t \in Keys :
              (st[t] = "finished" /\ st'[t] = "collected") =>
                  LET Q == Release(dependents[t], indegree, ready).ready IN
                  /\ SubSeq(Q, 1, Len(ready)) = ready
                  /\ TakenFromFront(Q, running' \ running, ready')]_vars

\* C25 witness: with one worker, a task released by a completion waits in
\* the queue behind a task added after it, which was ready from the start.
C25_Witness ==
    /\ InParallel /\ maxw = 1
    /\ \E i, j \in 1..Len(ready) :
          /\ i < j /\ ready[j] < ready[i]
          /\ deps[ready[i]] = <<>> /\ deps[ready[j]] # <<>>

\* The entries of t's dependency list whose task has not been collected.
OpenDeps(t) == {j \in 1..Len(deps[t]) : st[deps[t][j]] # "collected"}

\* C27: in run_parallel the indegree of a task is the number of entries of
\* its dependency list, repeated ones included, whose task has not been
\* collected, so it is never negative and is 0 only when every dependency
\* has ended and been collected; a task of indegree 0 is either in the ready
\* queue, once and not yet submitted, or has been submitted and is not in
\* the queue; no task is executed twice.
C27_SubmittedAtMostOnce ==
    InParallel =>
        \A t \in Keys :
            /\ indegree[t] = Cardinality(OpenDeps(t))
            /\ indegree[t] >= 0
            /\ indegree[t] = 0 => \A d \in DepSet(t) : Ended(d) /\ st[d] = "collected"
            /\ Occurrences(ready, t) <= 1
            /\ Occurrences(ready, t) = 1 => (indegree[t] = 0 /\ st[t] = "new" /\ t \notin running)
            /\ st[t] # "new" => (indegree[t] = 0 /\ Occurrences(ready, t) = 0)
            /\ nrun[t] <= 1

\* C27 witness: a task whose list holds the same dependency twice has been
\* executed.
C27_Witness ==
    /\ InParallel
    /\ \E t \in Keys :
          /\ Len(deps[t]) = 2 /\ deps[t][1] = deps[t][2]
          /\ Started(t)

\* t lies on a dependency cycle or depends, directly or transitively, on a
\* task that does.
Stuck(t) == OnCycle(t) \/ \E a \in Ancestors(t) \cap Keys : OnCycle(a)

\* C28: in run_parallel a task on a dependency cycle (a task that depends on
\* itself included), or one that depends directly or transitively on such a
\* task, is never queued, submitted or started.
C28_CycleTasksNeverStart ==
    InParallel =>
        \A t \in Keys :
            Stuck(t) =>
                /\ ~Started(t)
                /\ st[t] = "new"
                /\ t \notin running
                /\ Occurrences(ready, t) = 0

\* C28 witness: run_parallel is over, having executed a task off the cycle
\* and left alone a task that is not on the cycle but depends on it.
C28_Witness ==
    /\ InParallel /\ Finished
    /\ \E t, u \in Keys : Stuck(t) /\ ~OnCycle(t) /\ ~Stuck(u) /\ Started(u)

\* The controller is blocked in as_completed: none of the futures it waits
\* for is set.
Waiting == pc = "par_loop" /\ pending # {} /\ \A t \in pending : st[t] # "finished"

\* The in-flight tasks that occupy a worker: their future is not yet set.
Busy == {t \in running : st[t] # "finished"}

\* C29: whenever the controller waits for a completion, the ready queue is
\* empty or max_workers tasks are in flight and every one of them occupies a
\* worker: no ready task waits while a worker is free.
C29_WorkConserving ==
    Waiting =>
        \/ ready = <<>>
        \/ (Cardinality(running) = maxw /\ Cardinality(Busy) = maxw)

\* The table of the profiling buckets, by operation name and type tag.
ExpectedLabel(m, ty) ==
    IF m = "set_test_cat" THEN <<"prep", "set_test_cat">>
    ELSE IF m = "set_input_cat" THEN <<"prep", "set_input_cat">>
    ELSE IF m = "create_forecast" THEN <<"model", "create_forecast">>
    ELSE IF m = "get_forecast" THEN <<"eval", "get_forecast">>
    ELSE IF m = "compute"
         THEN (IF ty = None \/ ty = "" THEN <<"eval", "compute">> ELSE <<"eval", "compute", ty>>)
    ELSE <<"other", m>>

\* C26: _bucket of a task that has its target returns the label the table
\* gives for the task's operation name and, for compute, the target's type
\* attribute (eval:compute when there is none or it is empty), whatever the
\* target, the arguments and the calls made before; and the call changes
\* nothing of the graph, the tasks or the runners' state.
C26_BucketIsATable ==
    /\ [](call.op = "_bucket" =>
            LET task == call.args[1] IN
            /\ task.obj # Deleted =>
                   ret = Return(ExpectedLabel(task.method, ObjType(task.obj)))
            /\ task.obj = Deleted => ret.kind = "raise")
    /\ [][call'.op = "_bucket" => UNCHANGED <<engineVars, regVars>>]_vars

\* C26 witness: _bucket has returned eval:compute:consistency for a compute
\* task whose target has the type consistency.
C26_Witness ==
    /\ call.op = "_bucket"
    /\ call.args[1].method = "compute" /\ call.args[1].obj = "test_n"
    /\ ret = Return(<<"eval", "compute", "consistency">>)

\* C30: a call of add_dependency for a task that is not in the graph ends
\* with KeyError and leaves the tasks, every dependency list and the task
\* count as they were.
C30_UnknownTaskKeyError ==
    [][(/\ <<call, ret>>' # <<call, ret>>
        /\ call'.op = "add_dependency"
        /\ call'.args[1] \notin Keys) =>
           /\ ret' = Raised("KeyError")
           /\ UNCHANGED <<tasks, deps, ntasks>>]_vars

\* C30 witness: the call has raised KeyError for a task never added although
\* its scan had found a registered task that matches, and the graph holds a
\* dependency declared before.
C30_Witness ==
    /\ call.op = "add_dependency" /\ ret = Raised("KeyError")
    /\ call.args[1] \notin Keys
    /\ \E o \in Keys : sign_match(o, obj[o], call.args[2], call.args[3], call.args[4])
    /\ \E o \in Keys : deps[o] # <<>>

====
